---- MODULE Spec2Model ----
(***************************************************************************)
(* State-machine model of migetapp/container-os, scripts/                  *)
(* update_manifest_versions.py: the reconciler that refreshes the targets  *)
(* document (manifests/targets.json) and the package-versions document     *)
(* (manifests/package_versions.json) from Docker Hub and from package      *)
(* queries run inside containers.                                          *)
(*                                                                         *)
(* Strings the code inspects character by character (image tags) are       *)
(* sequences of one-character strings; a JSON object whose iteration order *)
(* the code depends on is a sequence of [key, val] entries in file order.  *)
(***************************************************************************)
EXTENDS Integers, Sequences, FiniteSets, TLC

(***************************************************************************)
(* Bounds of the model.                                                    *)
(***************************************************************************)
\* utcnow() readings are drawn from 0..MaxClock.
MaxClock == 1
\* The patch component of the release version of a settled targets document.
MaxPatch == 1
\* A tag listing of the registry holds at most MaxTags tags, on two pages.
MaxTags == 3

(***************************************************************************)
(* Python values.                                                          *)
(***************************************************************************)
\* None as the value of an Optional[str].
None == "None"

\* dict.get(key) on a dict whose values are strings.
Get(d, k) == IF k \in DOMAIN d THEN d[k] ELSE None

\* The dict after dict.setdefault(key, default).
SetDefault(d, k, default) == IF k \in DOMAIN d THEN d ELSE d @@ (k :> default)

\* The dict after d[key] = value.
Put(d, k, v) == [x \in DOMAIN d \cup {k} |-> IF x = k THEN v ELSE d[x]]

(***************************************************************************)
(* Ordered JSON objects: sequences of [key, val] entries, keys distinct.   *)
(***************************************************************************)
Keys(od) == [i \in 1..Len(od) |-> od[i].key]

HasKey(od, k) == \E i \in 1..Len(od) : od[i].key = k

Lookup(od, k) == od[CHOOSE i \in 1..Len(od) : od[i].key = k].val

Assign(od, k, v) == [i \in 1..Len(od) |-> IF od[i].key = k THEN [key |-> k, val |-> v] ELSE od[i]]

(***************************************************************************)
(* Image tags and packaging.version.Version.                               *)
(***************************************************************************)
Digits == <<"0", "1", "2", "3", "4", "5", "6", "7", "8", "9">>

IsDigit(c) == \E i \in 1..10 : Digits[i] = c

DigitVal(c) == (CHOOSE i \in 1..10 : Digits[i] = c) - 1

\* str.startswith
startswith(s, prefix) == Len(prefix) <= Len(s) /\ SubSeq(s, 1, Len(prefix)) = prefix

\* VERSION_PATTERN = ^(?:\d+)(?:\.\d+)*$ : digit runs separated by single dots.
VERSION_PATTERN(s) ==
    /\ Len(s) > 0
    /\ \A i \in 1..Len(s) : IsDigit(s[i]) \/ s[i] = "."
    /\ IsDigit(s[1]) /\ IsDigit(s[Len(s)])
    /\ \A i \in 1..(Len(s) - 1) : ~(s[i] = "." /\ s[i + 1] = ".")

\* Version(tag).release of a tag that matches VERSION_PATTERN.
RECURSIVE Release(_, _)
Release(s, cur) ==
    IF s = << >> THEN <<cur>>
    ELSE IF Head(s) = "." THEN <<cur>> \o Release(Tail(s), 0)
    ELSE Release(Tail(s), cur * 10 + DigitVal(Head(s)))

\* Version comparison ignores trailing zero components of the release.
RECURSIVE StripZeros(_)
StripZeros(r) ==
    IF r /= << >> /\ r[Len(r)] = 0 THEN StripZeros(SubSeq(r, 1, Len(r) - 1)) ELSE r

\* Tuple order of two releases: a < b.
RECURSIVE TupleLess(_, _)
TupleLess(a, b) ==
    IF b = << >> THEN FALSE
    ELSE IF a = << >> THEN TRUE
    ELSE IF Head(a) /= Head(b) THEN Head(a) < Head(b)
    ELSE TupleLess(Tail(a), Tail(b))

VersionLess(a, b) == TupleLess(StripZeros(a), StripZeros(b))

\* max() over a non-empty list of releases: the first of the greatest ones.
RECURSIVE MaxRelease(_, _)
MaxRelease(best, rest) ==
    IF rest = << >> THEN best
    ELSE MaxRelease(IF VersionLess(best, Head(rest)) THEN Head(rest) ELSE best, Tail(rest))

\* str(n) for a natural number.
RECURSIVE IntToStr(_)
IntToStr(n) == IF n < 10 THEN <<Digits[n + 1]>> ELSE IntToStr(n \div 10) \o <<Digits[(n % 10) + 1]>>

\* str(Version): the release components joined by dots.
RECURSIVE VersionStr(_)
VersionStr(r) ==
    IF Len(r) = 1 THEN IntToStr(r[1]) ELSE IntToStr(r[1]) \o <<".">> \o VersionStr(Tail(r))

\* The tag names of all result pages, in the order the pages are fetched.
RECURSIVE Concat(_)
Concat(ss) == IF ss = << >> THEN << >> ELSE Head(ss) \o Concat(Tail(ss))

\* DOCKER_HUB_REPOS: the operating systems whose base tag is resolved on Docker Hub.
DOCKER_HUB_REPOS == {"alpine"}

\* The candidates loop of fetch_latest_tag over all result pages.
Candidates(prefix, pages) ==
    SelectSeq(Concat(pages), LAMBDA t : startswith(t, prefix) /\ VERSION_PATTERN(t))

\* fetch_latest_tag(os_name, prefix) against a registry that answers `reply`:
\* [raised |-> TRUE] when a request raises, else the returned tag.
fetch_latest_tag(os_name, prefix, reply) ==
    IF os_name \notin DOCKER_HUB_REPOS THEN [raised |-> FALSE, tag |-> prefix]
    ELSE IF reply.status /= "ok" THEN [raised |-> TRUE, tag |-> prefix]
    ELSE LET candidates == Candidates(prefix, reply.pages)
             releases == [i \in 1..Len(candidates) |-> Release(candidates[i], 0)]
         IN IF candidates = << >> THEN [raised |-> FALSE, tag |-> prefix]
            ELSE [raised |-> FALSE,
                  tag |-> VersionStr(MaxRelease(Head(releases), Tail(releases)))]

(***************************************************************************)
(* The documents.  A tag such as 3.19 is written as its characters; the    *)
(* keys of the documents are plain strings.                                *)
(***************************************************************************)
Tag_3_19 == <<"3", ".", "1", "9">>
Tag_3_19_8 == <<"3", ".", "1", "9", ".", "8">>
Tag_3_19_9 == <<"3", ".", "1", "9", ".", "9">>
Tag_3_19_10 == <<"3", ".", "1", "9", ".", "1", "0">>
Tag_3_19_9_rc1 == <<"3", ".", "1", "9", ".", "9", "-", "r", "c", "1">>
Tag_3_20_1 == <<"3", ".", "2", "0", ".", "1">>
Tag_3_19_09 == <<"3", ".", "1", "9", ".", "0", "9">>
Tag_latest == <<"l", "a", "t", "e", "s", "t">>
Tag_24_04 == <<"2", "4", ".", "0", "4">>
Tag_12 == <<"1", "2">>
Tag_3_190 == <<"3", ".", "1", "9", "0">>

\* Alphabetical rank of the keys, as json.dumps(sort_keys=True) orders them.
KeyRank(k) ==
    CASE k = "alpine" -> 1 [] k = "debian" -> 2 [] k = "ubuntu" -> 3
      [] k = "compose" -> 1 [] k = "engine" -> 2 [] k = "tools" -> 3
      [] OTHER -> 0

\* An ordered object with its entries in sorted key order.
RECURSIVE SortKeys(_)
SortKeys(od) ==
    IF od = << >> THEN << >>
    ELSE LET i == CHOOSE j \in 1..Len(od) : \A k \in 1..Len(od) : KeyRank(od[j].key) <= KeyRank(od[k].key)
         IN <<od[i]>> \o SortKeys([j \in 1..(Len(od) - 1) |-> IF j < i THEN od[j] ELSE od[j + 1]])

\* All orders in which the entries of an ordered object can be authored.
Orders(od) ==
    {p \in [1..Len(od) -> {od[i] : i \in 1..Len(od)}] : \A i, j \in 1..Len(od) : i /= j => p[i] /= p[j]}

\* Target metadata as authored: base, packages (bucket -> package list).
AlpinePackages == <<[key |-> "engine", val |-> <<"docker">>]>>

UbuntuPackages ==
    <<[key |-> "compose", val |-> <<"docker-compose-plugin">>],
      [key |-> "engine", val |-> <<"docker-compose-plugin">>]>>

DebianPackages == <<[key |-> "tools", val |-> <<"curl">>]>>

\* The "targets" object for one authored order of the bucket keys of ubuntu 24.04,
\* without (fresh) or with (settled) resolved alias_patch values.
TargetsObject(ubuntuPackages, settled) ==
    LET meta(base, packages, alias) ==
            IF settled THEN [base |-> base, packages |-> packages, alias_patch |-> alias]
            ELSE [base |-> base, packages |-> packages]
    IN <<[key |-> "alpine", val |-> <<[key |-> "3.19", val |-> meta(Tag_3_19, AlpinePackages, Tag_3_19_8)]>>],
         [key |-> "debian", val |-> <<[key |-> "12", val |-> meta(Tag_12, DebianPackages, Tag_12)]>>],
         [key |-> "ubuntu", val |-> <<[key |-> "24.04", val |-> meta(Tag_24_04, ubuntuPackages, Tag_24_04)]>>]>>

Channels ==
    [stable |-> [os |-> "alpine", version |-> "3.19", engine |-> "docker"],
     lts |-> [os |-> "ubuntu", version |-> "24.04", engine |-> "docker"]]

\* The targets documents a run can start from: freshly authored (release
\* 1.0.p, nothing resolved yet) or settled by earlier runs (release 1.4.p), with
\* the object keys in any authored order.
ManifestDocs ==
    {IF settled
        THEN [version |-> <<1, 4, p>>, docker_compose_version |-> "2.29.1", targets |-> t,
              channels |-> Channels, metadata |-> [last_updated |-> 0]]
        ELSE [version |-> <<1, 0, p>>, docker_compose_version |-> "2.29.1", targets |-> t,
              channels |-> Channels]
       : <<p, t, settled>> \in
            UNION {UNION {{<<p, t, s>> : t \in Orders(TargetsObject(u, s))} : u \in Orders(UbuntuPackages)}
                       : <<p, s>> \in {<<0, FALSE>>} \cup ({MaxPatch} \X {TRUE})}}

\* The package-versions documents a run can start from: empty, or with some
\* versions already stored.
EmptyObject == [k \in {} |-> None]

PackageVersionsDocs ==
    {EmptyObject,
     ("alpine" :> ("3.19" :> ("engine" :> ("docker" :> "27.0"))))
       @@ ("debian" :> ("12" :> ("tools" :> ("curl" :> "8.5"))))
       @@ ("ubuntu" :> ("24.04" :> ("engine" :> ("docker-compose-plugin" :> "2.29"))))}

(***************************************************************************)
(* The upstream: what Docker Hub and the package-query containers answer.  *)
(***************************************************************************)
\* Answers of the Docker Hub tag listing for library/alpine, name=3.19: a
\* request that raises (transport failure, timeout or error status), a
\* listing without any candidate, and a two-page listing.
RegistryReplies ==
    {[status |-> "error", pages |-> << >>],
     [status |-> "ok", pages |-> <<<<Tag_latest, Tag_3_20_1>>>>],
     [status |-> "ok", pages |-> <<<<Tag_3_19_8, Tag_latest>>>>],
     [status |-> "ok", pages |-> <<<<Tag_3_19_9, Tag_3_19_9_rc1, Tag_latest>>,
                                   <<Tag_3_19_10, Tag_3_19_09, Tag_3_20_1>>>>]}

\* What the package manager prints as the candidate version of a package:
\* nothing for an unknown package, "(none)" for one without a candidate.
RawCandidates(package) ==
    CASE package = "docker" -> {"", "27.1"}
      [] package = "docker-compose-plugin" -> {"(none)", "2.30"}
      [] OTHER -> {""}

\* Outcomes of `docker run` for the packages of one target: subprocess.run
\* raises OSError (docker cannot be executed), the container exits non-zero,
\* or it exits 0 after printing one candidate per package.
ContainerReplies(packages) ==
    {[status |-> "oserror", candidate |-> EmptyObject], [status |-> "nonzero", candidate |-> EmptyObject]}
      \cup {[status |-> "ok", candidate |-> c] :
               c \in {f \in [packages -> UNION {RawCandidates(q) : q \in packages}] :
                         \A q \in packages : f[q] \in RawCandidates(q)}}

\* The upstream as a whole: the registry's answer for alpine and the answer
\* of the query container of each system that runs one.
Upstreams ==
    {[registry |-> r, container |-> [alpine |-> a, ubuntu |-> u]] :
        <<r, a, u>> \in RegistryReplies \X ContainerReplies({"docker"})
                          \X ContainerReplies({"docker-compose-plugin"})}

(***************************************************************************)
(* fetch_all_package_versions                                              *)
(***************************************************************************)
\* The lines the query script prints: one PACKAGE=VERSION line per package.
Stdout(packages, candidate) ==
    [i \in 1..Len(packages) |-> [name |-> packages[i], value |-> candidate[packages[i]]]]

\* The parse loop: empty and "(none)" versions become None.
ParseVersion(pkg_version) == IF pkg_version /= "" /\ pkg_version /= "(none)" THEN pkg_version ELSE None

RECURSIVE ParseOutput(_, _)
ParseOutput(lines, results) ==
    IF lines = << >> THEN results
    ELSE ParseOutput(Tail(lines), Put(results, Head(lines).name, ParseVersion(Head(lines).value)))

\* {pkg: None for pkg in packages}
AllNone(packages) == [q \in {packages[i] : i \in 1..Len(packages)} |-> None]

\* fetch_all_package_versions(os_name, version, packages) when `docker run`
\* answers `reply`: [raised |-> TRUE] when an exception leaves the function.
fetch_all_package_versions(os_name, packages, reply) ==
    IF packages = << >> THEN [raised |-> FALSE, results |-> EmptyObject]
    ELSE IF os_name \notin {"ubuntu", "alpine"} THEN [raised |-> FALSE, results |-> AllNone(packages)]
    ELSE IF reply.status = "oserror" THEN [raised |-> TRUE, results |-> EmptyObject]
    ELSE IF reply.status = "nonzero" THEN [raised |-> FALSE, results |-> AllNone(packages)]
    ELSE LET parsed == ParseOutput(Stdout(packages, reply.candidate), EmptyObject)
         IN [raised |-> FALSE,
             results |-> [q \in DOMAIN parsed \cup DOMAIN AllNone(packages) |->
                             IF q \in DOMAIN parsed THEN parsed[q] ELSE None]]

\* The answer of `docker run` for a target (no container is run for other systems).
ContainerReply(up, os_name) ==
    IF os_name \in DOMAIN up.container THEN up.container[os_name]
    ELSE [status |-> "nonzero", candidate |-> EmptyObject]

(***************************************************************************)
(* update_manifest, one target of the walk                                 *)
(***************************************************************************)
\* The (os_name, version_key) pairs in the iteration order of the two loops.
RECURSIVE Walk(_)
Walk(targets) ==
    IF targets = << >> THEN << >>
    ELSE [i \in 1..Len(Head(targets).val) |-> <<Head(targets).key, Head(targets).val[i].key>>]
           \o Walk(Tail(targets))

\* The comparison of line 175 lost: every resolved tag counts as a change.
AliasDiffers_Always(metadata, latest_tag) == TRUE

\* metadata.get("alias_patch") != latest_tag
AliasDiffers(metadata, latest_tag) ==
    "alias_patch" \notin DOMAIN metadata \/ metadata.alias_patch /= latest_tag

\* The resolved tag written to base as well as to alias_patch.
AliasStep_Rebase(metadata, latest_tag) ==
    IF AliasDiffers(metadata, latest_tag)
    THEN Put(Put(metadata, "alias_patch", latest_tag), "base", latest_tag)
    ELSE metadata

\* metadata after lines 175-176.
AliasStep(metadata, latest_tag) ==
    IF AliasDiffers(metadata, latest_tag) THEN Put(metadata, "alias_patch", latest_tag) ELSE metadata

\* all_packages: the packages of all buckets, in iteration order.
RECURSIVE AllPackages(_)
AllPackages(pkg_data) ==
    IF pkg_data = << >> THEN << >> ELSE Head(pkg_data).val \o AllPackages(Tail(pkg_data))

\* package_to_bucket: each package mapped to the bucket that named it last.
RECURSIVE PackageToBucket(_, _)
PackageToBucket(pkg_data, acc) ==
    IF pkg_data = << >> THEN acc
    ELSE LET bucket == Head(pkg_data).key
             packages == Head(pkg_data).val
             named == {packages[i] : i \in 1..Len(packages)}
         IN PackageToBucket(Tail(pkg_data),
                            [q \in DOMAIN acc \cup named |-> IF q \in named THEN bucket ELSE acc[q]])

\* The comparison of line 200 lost: every resolved version counts as a change.
VersionDiffers_Always(bucket_versions, package, version_value) == TRUE

\* bucket_versions.get(package) != version_value
VersionDiffers(bucket_versions, package, version_value) ==
    Get(bucket_versions, package) /= version_value

\* The guard of line 196 lost: null resolutions are stored like versions.
Skipped_Never(version_value) == FALSE

\* `if not version_value: continue`
Skipped(version_value) == version_value = None \/ version_value = ""

\* pkg_versions.setdefault(bucket, {})
BucketVersions(pkg_versions, bucket) == SetDefault(pkg_versions, bucket, EmptyObject)[bucket]

\* pkg_versions after the body of the update loop for one fetched package.
UpdatePackage(pkg_versions, bucket, package, version_value) ==
    LET with_bucket == SetDefault(pkg_versions, bucket, EmptyObject)
    IN IF VersionDiffers(with_bucket[bucket], package, version_value)
       THEN Put(with_bucket, bucket, Put(with_bucket[bucket], package, version_value))
       ELSE with_bucket

\* The update loop (lines 195-202) over the fetched packages `todo`: the
\* versions of the target and the packages an update is recorded for.
RECURSIVE UpdatePackages(_, _, _, _, _)
UpdatePackages(todo, fetched, package_to_bucket, pkg_versions, updated) ==
    IF todo = {} THEN [pkg_versions |-> pkg_versions, updated |-> updated]
    ELSE LET package == CHOOSE q \in todo : TRUE
             version_value == fetched[package]
             bucket == package_to_bucket[package]
         IN IF Skipped(version_value)
            THEN UpdatePackages(todo \ {package}, fetched, package_to_bucket, pkg_versions, updated)
            ELSE UpdatePackages(todo \ {package}, fetched, package_to_bucket,
                                UpdatePackage(pkg_versions, bucket, package, version_value),
                                IF VersionDiffers(BucketVersions(pkg_versions, bucket), package, version_value)
                                THEN updated \cup {package} ELSE updated)

(***************************************************************************)
(* The reconciler process: main() of update_manifest_versions.py.          *)
(***************************************************************************)
VARIABLES
    disk_manifest,            \* manifests/targets.json as persisted
    disk_package_versions,    \* manifests/package_versions.json as persisted
    upstream,                 \* what the registry and the containers answer during the run
    pc,                       \* position of main(): idle, walk, returned, saved_manifest, done, crashed
    idx,                      \* the target of the walk that is processed next
    manifest,                 \* the targets document in memory
    package_versions,         \* the package-versions document in memory
    alias_updates,            \* (os_name, version_key) -> tag
    package_updates,          \* (os_name, version_key, package) -> version
    result,                   \* UpdateResult.manifest_version_bumped once update_manifest returned
    now,                      \* the utcnow() reading of the run, 0 before it is taken
    writes,                   \* how often the run wrote each of the two files
    twice,                    \* the run follows a completed run with the same upstream
    missing                   \* the files among "manifest", "package_versions" that do not exist

\* A call of fetch_latest_tag on its own.
VARIABLES
    tag_prefix,               \* the prefix argument
    tag_pages,                \* the result pages the registry lists, in order
    tag_result,               \* what the call returned
    tag_pc                    \* off, called, resolved

\* A run of detect_changes.py.
VARIABLES
    current_targets,          \* manifests/targets.json of the working tree
    current_versions,         \* manifests/package_versions.json of the working tree
    head_targets,             \* what git show HEAD:manifests/targets.json answers
    head_versions,            \* what git show HEAD:manifests/package_versions.json answers
    changes,                  \* the change records, in the order they are appended
    has_changes,              \* the has_changes= line printed, "unset" before it
    exit_code,                \* the exit status of the process, -1 while it runs
    drift_pc                  \* off, start, classified, exited

\* A run of tag_aliases.py.
VARIABLES
    pub_manifest,             \* manifests/targets.json as load_manifest returns it
    dry_run,                  \* --dry-run
    pub_idx,                  \* position of main's loop in channels
    first_operation,          \* main's flag
    call,                     \* source and target of the latest call of retag
    attempt,                  \* retag's loop variable, 0 outside the loop
    responses,                \* what the registry answered to that call, one per attempt
    waits,                    \* the backoff sleeps of that call, in seconds
    throttles,                \* how often main slept DELAY_BETWEEN_OPERATIONS
    retagged,                 \* the aliases handed to retag, in order
    registry,                 \* the tag each alias points to in the registry
    pub_exit,                 \* the exit status of the process, -1 while it runs
    pub_pc                    \* off, main, retag, done, failed, crashed

\* The variables of the other programs of the repository, which the
\* reconciler leaves alone.
tag_vars == <<tag_prefix, tag_pages, tag_result, tag_pc>>

drift_vars ==
    <<current_targets, current_versions, head_targets, head_versions, changes, has_changes,
      exit_code, drift_pc>>

publish_vars ==
    <<pub_manifest, dry_run, pub_idx, first_operation, call, attempt, responses, waits,
      throttles, retagged, registry, pub_exit, pub_pc>>

reconciler_vars ==
    <<disk_manifest, disk_package_versions, upstream, pc, idx, manifest, package_versions,
      alias_updates, package_updates, result, now, writes, twice, missing>>

vars == <<reconciler_vars, tag_vars, drift_vars, publish_vars>>

\* The other programs are not running.
TagIdle ==
    /\ tag_prefix = << >>
    /\ tag_pages = << >>
    /\ tag_result = [raised |-> FALSE, tag |-> << >>]
    /\ tag_pc = "off"

DriftIdle ==
    /\ current_targets = << >>
    /\ current_versions = << >>
    /\ head_targets = [status |-> "nonzero", doc |-> << >>]
    /\ head_versions = [status |-> "nonzero", doc |-> << >>]
    /\ changes = << >>
    /\ has_changes = "unset"
    /\ exit_code = -1
    /\ drift_pc = "off"

PublishIdle ==
    /\ pub_manifest = << >>
    /\ dry_run = FALSE
    /\ pub_idx = 1
    /\ first_operation = TRUE
    /\ call = << >>
    /\ attempt = 0
    /\ responses = << >>
    /\ waits = << >>
    /\ throttles = 0
    /\ retagged = << >>
    /\ registry = << >>
    /\ pub_exit = -1
    /\ pub_pc = "off"

NoUpstream ==
    [registry |-> [status |-> "error", pages |-> << >>],
     container |-> [alpine |-> [status |-> "nonzero", candidate |-> EmptyObject],
                    ubuntu |-> [status |-> "nonzero", candidate |-> EmptyObject]]]

Init ==
    /\ disk_manifest \in ManifestDocs
    /\ disk_package_versions \in PackageVersionsDocs
    /\ upstream = NoUpstream
    /\ pc = "idle"
    /\ idx = 1
    /\ manifest = disk_manifest
    /\ package_versions = disk_package_versions
    /\ alias_updates = EmptyObject
    /\ package_updates = EmptyObject
    /\ result = FALSE
    /\ now = 0
    /\ writes = [manifest |-> 0, package_versions |-> 0]
    /\ twice = FALSE
    /\ missing \in SUBSET {"manifest", "package_versions"}
    /\ TagIdle /\ DriftIdle /\ PublishIdle

\* load_json treating a missing package-versions file as an empty document.
Load_DefaultEmpty(up) ==
    /\ pc \in {"idle", "done", "crashed", "missing_file"}
    /\ IF "manifest" \in missing
       THEN /\ pc' = "missing_file"
            /\ UNCHANGED <<upstream, twice, manifest, package_versions, alias_updates,
                           package_updates, result, now, writes, idx>>
       ELSE /\ upstream' = up
            /\ twice' = (pc = "done" /\ up = upstream)
            /\ manifest' = disk_manifest
            /\ package_versions' =
                   IF "package_versions" \in missing THEN EmptyObject ELSE disk_package_versions
            /\ alias_updates' = EmptyObject
            /\ package_updates' = EmptyObject
            /\ result' = FALSE
            /\ now' = 0
            /\ writes' = [manifest |-> 0, package_versions |-> 0]
            /\ idx' = 1
            /\ pc' = "walk"
    /\ UNCHANGED <<disk_manifest, disk_package_versions, missing>>
    /\ UNCHANGED <<tag_vars, drift_vars, publish_vars>>

\* json.load of both files (lines 221-222) and the start of update_manifest
\* (lines 169-170), for a run during which the upstream answers `up`.
Load(up) ==
    /\ pc \in {"idle", "done", "crashed", "missing_file"}
    /\ IF missing /= {}
       THEN /\ pc' = "missing_file"
            /\ UNCHANGED <<upstream, twice, manifest, package_versions, alias_updates,
                           package_updates, result, now, writes, idx>>
       ELSE /\ upstream' = up
            /\ twice' = (pc = "done" /\ up = upstream)
            /\ manifest' = disk_manifest
            /\ package_versions' = disk_package_versions
            /\ alias_updates' = EmptyObject
            /\ package_updates' = EmptyObject
            /\ result' = FALSE
            /\ now' = 0
            /\ writes' = [manifest |-> 0, package_versions |-> 0]
            /\ idx' = 1
            /\ pc' = "walk"
    /\ UNCHANGED <<disk_manifest, disk_package_versions, missing>>
    /\ UNCHANGED <<tag_vars, drift_vars, publish_vars>>

\* The metadata of a target of the document.
Metadata(doc, os_name, version_key) == Lookup(Lookup(doc.targets, os_name), version_key)

\* The document with the metadata of one target replaced (metadata is mutated in place).
WithMetadata(doc, os_name, version_key, metadata) ==
    [doc EXCEPT !.targets = Assign(doc.targets, os_name,
                                   Assign(Lookup(doc.targets, os_name), version_key, metadata))]

\* package_versions.setdefault(os_name, {}).setdefault(version_key, {})
WithTarget(pv, os_name, version_key) ==
    LET with_os == SetDefault(pv, os_name, EmptyObject)
    IN Put(with_os, os_name, SetDefault(with_os[os_name], version_key, EmptyObject))

\* One iteration of the loops of update_manifest (lines 172-202).  A request of
\* fetch_latest_tag that raises, and an OSError of subprocess.run, are caught
\* nowhere (main catches UpdateError only): the process ends with a traceback.
ProcessTarget ==
    /\ pc = "walk"
    /\ idx <= Len(Walk(manifest.targets))
    /\ LET os_name == Walk(manifest.targets)[idx][1]
           version_key == Walk(manifest.targets)[idx][2]
           metadata == Metadata(manifest, os_name, version_key)
           latest == fetch_latest_tag(os_name, metadata.base, upstream.registry)
           aliased == WithMetadata(manifest, os_name, version_key, AliasStep(metadata, latest.tag))
           recorded == IF AliasDiffers(metadata, latest.tag)
                       THEN Put(alias_updates, <<os_name, version_key>>, latest.tag)
                       ELSE alias_updates
           with_target == WithTarget(package_versions, os_name, version_key)
           all_packages == AllPackages(metadata.packages)
           package_to_bucket == PackageToBucket(metadata.packages, EmptyObject)
           fetched == fetch_all_package_versions(os_name, all_packages, ContainerReply(upstream, os_name))
           updated == UpdatePackages(DOMAIN fetched.results, fetched.results, package_to_bucket,
                                     with_target[os_name][version_key], {})
       IN IF latest.raised
          THEN /\ pc' = "crashed"
               /\ UNCHANGED <<manifest, package_versions, alias_updates, package_updates, idx>>
          ELSE IF fetched.raised
          THEN /\ pc' = "crashed"
               /\ manifest' = aliased
               /\ alias_updates' = recorded
               /\ package_versions' = with_target
               /\ UNCHANGED <<package_updates, idx>>
          ELSE /\ manifest' = aliased
               /\ alias_updates' = recorded
               /\ package_versions' =
                      Put(with_target, os_name, Put(with_target[os_name], version_key, updated.pkg_versions))
               /\ package_updates' =
                      [k \in DOMAIN package_updates \cup {<<os_name, version_key, q>> : q \in updated.updated} |->
                          IF k[3] \in updated.updated /\ k[1] = os_name /\ k[2] = version_key
                          THEN fetched.results[k[3]] ELSE package_updates[k]]
               /\ idx' = idx + 1
               /\ pc' = "walk"
    /\ UNCHANGED <<disk_manifest, disk_package_versions, upstream, result, now, writes, twice, missing>>
    /\ UNCHANGED <<tag_vars, drift_vars, publish_vars>>

\* has_updates computed from the alias updates alone.
HasUpdates_AliasOnly(aliases, packages) == DOMAIN aliases /= {}

\* bool(alias_updates or package_updates)
HasUpdates(aliases, packages) == DOMAIN aliases /= {} \/ DOMAIN packages /= {}

\* Stamping that also advances the patch component of the release version
\* (the in-function bump of the reconciler's other variant).
Stamp_Bump(doc, time) ==
    LET with_metadata == SetDefault(doc, "metadata", EmptyObject)
    IN [Put(with_metadata, "metadata", Put(with_metadata["metadata"], "last_updated", time))
           EXCEPT !["version"] = <<@[1], @[2], @[3] + 1>>]

\* Stamping that rewrites the release version with its patch component reset.
Stamp_ResetPatch(doc, time) ==
    LET with_metadata == SetDefault(doc, "metadata", EmptyObject)
    IN [Put(with_metadata, "metadata", Put(with_metadata["metadata"], "last_updated", time))
           EXCEPT !["version"] = <<@[1], @[2], 0>>]

\* manifest.setdefault("metadata", {})["last_updated"] = <utcnow>
Stamp(doc, time) ==
    LET with_metadata == SetDefault(doc, "metadata", EmptyObject)
    IN Put(with_metadata, "metadata", Put(with_metadata["metadata"], "last_updated", time))

\* The end of update_manifest (lines 204-210): stamp and return the result.
Finish ==
    /\ pc = "walk"
    /\ idx > Len(Walk(manifest.targets))
    /\ LET has_updates == HasUpdates(alias_updates, package_updates)
       IN /\ result' = has_updates
          /\ IF has_updates
             THEN \E time \in 0..MaxClock : now' = time /\ manifest' = Stamp(manifest, time)
             ELSE UNCHANGED <<manifest, now>>
    /\ pc' = "returned"
    /\ UNCHANGED <<disk_manifest, disk_package_versions, upstream, idx, package_versions,
                   alias_updates, package_updates, writes, twice, missing>>
    /\ UNCHANGED <<tag_vars, drift_vars, publish_vars>>

\* json.dumps(data, indent=2, sort_keys=True) of the targets document: the
\* keys of every object in sorted order.
Serialize(doc) ==
    [doc EXCEPT !.targets =
        SortKeys([i \in 1..Len(doc.targets) |->
            [key |-> doc.targets[i].key,
             val |-> SortKeys([j \in 1..Len(doc.targets[i].val) |->
                        [key |-> doc.targets[i].val[j].key,
                         val |-> [doc.targets[i].val[j].val EXCEPT
                                     !.packages = SortKeys(doc.targets[i].val[j].val.packages)]]])]])]

\* The targets document saved from inside the walk, after each target.
SaveManifest_InWalk ==
    /\ pc = "walk"
    /\ idx > 1
    /\ writes.manifest = 0
    /\ disk_manifest' = Serialize(manifest)
    /\ writes' = [writes EXCEPT !.manifest = @ + 1]
    /\ UNCHANGED <<disk_package_versions, upstream, pc, idx, manifest, package_versions,
                   alias_updates, package_updates, result, now, twice, missing>>
    /\ UNCHANGED <<tag_vars, drift_vars, publish_vars>>

\* save_json(manifest_path, manifest), line 230.
SaveManifest ==
    /\ pc = "returned"
    /\ disk_manifest' = Serialize(manifest)
    /\ writes' = [writes EXCEPT !.manifest = @ + 1]
    /\ missing' = missing \ {"manifest"}
    /\ pc' = "saved_manifest"
    /\ UNCHANGED <<disk_package_versions, upstream, idx, manifest, package_versions,
                   alias_updates, package_updates, result, now, twice>>
    /\ UNCHANGED <<tag_vars, drift_vars, publish_vars>>

\* save_json(package_versions_path, package_versions), line 231, and the
\* report that follows it; main returns 0.
SavePackageVersions ==
    /\ pc = "saved_manifest"
    /\ disk_package_versions' = package_versions
    /\ writes' = [writes EXCEPT !.package_versions = @ + 1]
    /\ missing' = missing \ {"package_versions"}
    /\ pc' = "done"
    /\ UNCHANGED <<disk_manifest, upstream, idx, manifest, package_versions,
                   alias_updates, package_updates, result, now, twice>>
    /\ UNCHANGED <<tag_vars, drift_vars, publish_vars>>

Next ==
    \/ \E up \in Upstreams : Load(up)
    \/ ProcessTarget
    \/ Finish
    \/ SaveManifest
    \/ SavePackageVersions

Spec == Init /\ [][Next]_vars

(***************************************************************************)
(* Properties of the reconciler.                                           *)
(*                                                                         *)
(* Until SaveManifest the persisted documents are the documents the run    *)
(* loaded, so "before the run" is read from disk_manifest and              *)
(* disk_package_versions while pc is walk, returned or crashed.            *)
(***************************************************************************)
\* The version stored for (os, version, bucket, package), None when absent.
StoredVersion(pv, os_name, version_key, bucket, package) ==
    IF os_name \in DOMAIN pv /\ version_key \in DOMAIN pv[os_name]
       /\ bucket \in DOMAIN pv[os_name][version_key]
    THEN Get(pv[os_name][version_key][bucket], package)
    ELSE None

\* The targets of the document as a set of <<os_name, version_key>>.
TargetSet(doc) == {Walk(doc.targets)[i] : i \in 1..Len(Walk(doc.targets))}

\* The <<bucket, package>> pairs a target declares.
Declared(metadata) ==
    UNION {{<<metadata.packages[i].key, metadata.packages[i].val[j]>> :
               j \in 1..Len(metadata.packages[i].val)} : i \in 1..Len(metadata.packages)}

\* The tag the base prefix of a target resolves to under the upstream of the run.
ResolvedTag(t) ==
    fetch_latest_tag(t[1], Metadata(disk_manifest, t[1], t[2]).base, upstream.registry)

\* The versions the packages of a target resolve to under the upstream of the run.
ResolvedVersions(t) ==
    fetch_all_package_versions(t[1], AllPackages(Metadata(manifest, t[1], t[2]).packages),
                               ContainerReply(upstream, t[1]))

\* The resolution of a package returned null (or the query failed altogether).
NullResolved(t, package) ==
    ResolvedVersions(t).raised \/ ResolvedVersions(t).results[package] = None

\* The walk has processed target t completely.
Processed(t) ==
    \/ pc \in {"returned", "saved_manifest", "done"}
    \/ pc \in {"walk", "crashed"} /\ \E i \in 1..(idx - 1) : Walk(manifest.targets)[i] = t

\* update_manifest has returned and nothing has been saved yet.
Returned == pc = "returned"

\* C1: idempotence.  When a run follows a completed run and the upstream
\* answers the same, it records no alias update and no package update, reports
\* "no changes", and hands to save_json documents that serialize to exactly
\* what the first run persisted.
C1_Idempotent ==
    (twice /\ Returned) =>
        /\ DOMAIN alias_updates = {}
        /\ DOMAIN package_updates = {}
        /\ result = FALSE
        /\ Serialize(manifest) = disk_manifest
        /\ package_versions = disk_package_versions

\* C2: null-preservation.  For every (os, version, bucket, package) whose
\* resolution returns null, the stored version is the one stored before the
\* run, and no package update is recorded for the package.
C2_NullPreserved ==
    pc \in {"walk", "crashed", "returned", "saved_manifest"} =>
        \A t \in TargetSet(manifest) :
            \A d \in Declared(Metadata(manifest, t[1], t[2])) :
                NullResolved(t, d[2]) =>
                    /\ StoredVersion(package_versions, t[1], t[2], d[1], d[2])
                         = StoredVersion(disk_package_versions, t[1], t[2], d[1], d[2])
                    /\ <<t[1], t[2], d[2]>> \notin DOMAIN package_updates

\* A run has returned with updates although the alpine package, stored as
\* 27.0, resolved to null.
C2_Witness ==
    /\ Returned
    /\ result = TRUE
    /\ upstream.container["alpine"].status = "ok"
    /\ NullResolved(<<"alpine", "3.19">>, "docker")
    /\ StoredVersion(package_versions, "alpine", "3.19", "engine", "docker") = "27.0"

\* Every package of the target is declared in exactly one bucket.
UniqueBuckets(metadata) ==
    \A d, e \in Declared(metadata) : d[2] = e[2] => d[1] = e[1]

\* C3: package update step.  For a processed target whose packages are each
\* declared in one bucket, every package with a non-null resolved version
\* stores exactly that version, and a package update (with that version) is
\* recorded if and only if it differed from the version stored before the run.
C3_PackageUpdate ==
    pc \in {"walk", "crashed", "returned", "saved_manifest"} =>
        \A t \in TargetSet(manifest) :
            (Processed(t) /\ UniqueBuckets(Metadata(manifest, t[1], t[2]))) =>
                \A d \in Declared(Metadata(manifest, t[1], t[2])) :
                    ~NullResolved(t, d[2]) =>
                        LET resolved == ResolvedVersions(t).results[d[2]]
                            key == <<t[1], t[2], d[2]>>
                        IN /\ StoredVersion(package_versions, t[1], t[2], d[1], d[2]) = resolved
                           /\ key \in DOMAIN package_updates
                                <=> StoredVersion(disk_package_versions, t[1], t[2], d[1], d[2]) /= resolved
                           /\ key \in DOMAIN package_updates => package_updates[key] = resolved

\* A run has returned after replacing the stored alpine package version 27.0
\* by the resolved 27.1.
C3_Witness ==
    /\ Returned
    /\ StoredVersion(disk_package_versions, "alpine", "3.19", "engine", "docker") = "27.0"
    /\ StoredVersion(package_versions, "alpine", "3.19", "engine", "docker") = "27.1"
    /\ <<"alpine", "3.19", "docker">> \in DOMAIN package_updates

\* The alias_patch of a target as a set: empty when the key is absent.
AliasPatch(doc, t) ==
    IF "alias_patch" \in DOMAIN Metadata(doc, t[1], t[2])
    THEN {Metadata(doc, t[1], t[2]).alias_patch} ELSE {}

\* C4: alias update step.  After a completed reconciliation every target's
\* alias_patch is the tag its base prefix resolved to (in memory, and in the
\* persisted document once it is saved), and an alias-update record
\* (os, version) -> tag exists if and only if that tag differed from the
\* alias_patch stored before the run.
C4_AliasUpdate ==
    /\ Returned =>
          \A t \in TargetSet(manifest) :
              /\ AliasPatch(manifest, t) = {ResolvedTag(t).tag}
              /\ t \in DOMAIN alias_updates <=> AliasPatch(disk_manifest, t) /= {ResolvedTag(t).tag}
              /\ t \in DOMAIN alias_updates => alias_updates[t] = ResolvedTag(t).tag
    /\ pc \in {"saved_manifest", "done"} =>
          \A t \in TargetSet(manifest) : AliasPatch(disk_manifest, t) = {ResolvedTag(t).tag}

\* A run has returned after moving alpine 3.19 from 3.19.8 to 3.19.10 while the
\* alias of ubuntu 24.04 stayed as stored.
C4_Witness ==
    /\ Returned
    /\ AliasPatch(disk_manifest, <<"alpine", "3.19">>) = {Tag_3_19_8}
    /\ <<"alpine", "3.19">> \in DOMAIN alias_updates
    /\ alias_updates[<<"alpine", "3.19">>] = Tag_3_19_10
    /\ <<"ubuntu", "24.04">> \notin DOMAIN alias_updates

\* C5 as stated: bump policy.  After a run with at least one update the patch
\* component of `version` is one greater than before the run and major/minor
\* are unchanged; after a run without update `version` is unchanged.
C5_BumpPolicy ==
    Returned =>
        LET before == disk_manifest.version
        IN IF DOMAIN alias_updates /= {} \/ DOMAIN package_updates /= {}
           THEN manifest.version = <<before[1], before[2], before[3] + 1>>
           ELSE manifest.version = before

\* C5 as amended: a run never changes `version`, whether or not an update
\* occurred; a run with at least one update only reports that a version bump is
\* needed (manifest_version_bumped), which a separate step of the workflow
\* carries out.
C5_BumpLeftToWorkflow ==
    /\ pc /= "idle" => manifest.version = disk_manifest.version
    /\ pc \in {"returned", "saved_manifest", "done"} =>
          (result <=> (DOMAIN alias_updates /= {} \/ DOMAIN package_updates /= {}))

\* A run with updates has completed and saved the settled release version.
C5_Witness ==
    /\ pc = "done"
    /\ result = TRUE
    /\ DOMAIN package_updates /= {}
    /\ disk_manifest.version = <<1, 4, MaxPatch>>

\* C6: monotonicity.  No step of any run, completed or aborted, decreases the
\* patch component of the release version, persisted or in memory.
C6_Monotonic ==
    [][/\ disk_manifest'.version[3] >= disk_manifest.version[3]
       /\ manifest'.version[3] >= manifest.version[3]]_vars

\* Two runs in succession have completed on a settled document.
C6_Witness ==
    /\ pc = "done"
    /\ twice
    /\ disk_manifest.version[3] = MaxPatch
    /\ "metadata" \in DOMAIN disk_manifest

\* metadata.last_updated of a document as a set: empty when absent.
LastUpdated(doc) ==
    IF "metadata" \in DOMAIN doc /\ "last_updated" \in DOMAIN doc["metadata"]
    THEN {doc["metadata"]["last_updated"]} ELSE {}

\* C7: last_updated stamping.  When update_manifest returns, the result is
\* marked changed exactly if an alias update or a package update was recorded;
\* in that case last_updated is the clock reading of the run, otherwise (and
\* while the walk is under way) it is the value that was loaded.
C7_Stamping ==
    /\ Returned =>
          LET updated == DOMAIN alias_updates /= {} \/ DOMAIN package_updates /= {}
          IN /\ result = updated
             /\ updated => LastUpdated(manifest) = {now}
             /\ ~updated => LastUpdated(manifest) = LastUpdated(disk_manifest)
    /\ pc \in {"walk", "crashed"} => LastUpdated(manifest) = LastUpdated(disk_manifest)

\* A run whose only updates are package updates has refreshed last_updated
\* from 0 to the latest clock reading.
C7_Witness ==
    /\ Returned
    /\ DOMAIN alias_updates = {}
    /\ DOMAIN package_updates /= {}
    /\ LastUpdated(disk_manifest) = {0}
    /\ LastUpdated(manifest) = {MaxClock}

\* The target the walk is at.
Current == Walk(manifest.targets)[idx]

\* C8 as stated: a failed base-alias query is contained.  The run is never
\* ended by the registry request of the target it is at.
C8_RegistryFailureContained ==
    ~(pc = "crashed" /\ ResolvedTag(Current).raised)

\* The query container of target t could not be run or exited non-zero.
ContainerFailed(t) ==
    /\ t[1] \in DOMAIN upstream.container
    /\ upstream.container[t[1]].status \in {"nonzero", "oserror"}

\* C9 as stated: a failed package query container is contained.  A run in
\* which the container of some target failed is never ended early: it
\* completes and saves both documents.
C9_ContainerFailureContained ==
    ~(/\ pc = "crashed"
      /\ \E i \in 1..idx :
            /\ ContainerFailed(Walk(manifest.targets)[i])
            /\ i = idx => ~ResolvedTag(Current).raised)

\* C10: persist-once.  A step changes a persisted document only after the
\* walk has completed (update_manifest returned) and only if the run has not
\* written that document before; an aborted run changes neither.
C10_PersistOnce ==
    [][/\ disk_manifest' /= disk_manifest => (pc = "returned" /\ writes.manifest = 0)
       /\ disk_package_versions' /= disk_package_versions
             => (pc = "saved_manifest" /\ writes.package_versions = 0)
       /\ writes'.manifest <= 1 /\ writes'.package_versions <= 1]_vars

\* A run was aborted after it had mutated both documents in memory; nothing
\* was written.
C10_Witness ==
    /\ pc = "crashed"
    /\ DOMAIN alias_updates /= {}
    /\ DOMAIN package_updates /= {}
    /\ Serialize(manifest) /= disk_manifest
    /\ package_versions /= disk_package_versions
    /\ writes = [manifest |-> 0, package_versions |-> 0]

\* C11: a missing document is fatal before any mutation.  While one of the two
\* files does not exist, every step ends the run at the failed load: the walk
\* (where the upstream is queried) is never entered, no file is created or
\* written, and neither document changes.
C11_MissingDocumentFatal ==
    [][missing /= {} =>
          /\ pc' = "missing_file"
          /\ missing' = missing
          /\ UNCHANGED <<disk_manifest, disk_package_versions, manifest, package_versions,
                         idx, alias_updates, package_updates, writes>>]_vars

\* A run has failed at the load of the package-versions file, after the
\* targets file was loaded.
C11_Witness ==
    /\ pc = "missing_file"
    /\ missing = {"package_versions"}
    /\ manifest = disk_manifest

(***************************************************************************)
(* update_manifest as a function of the loaded documents and the upstream  *)
(* answers, for comparing runs that differ in iteration order only.        *)
(***************************************************************************)
\* The loop body of lines 172-202 for the i-th target of the walk, on the
\* documents and update records so far.
TargetStep(st, up, i) ==
    LET os_name == Walk(st.manifest.targets)[i][1]
        version_key == Walk(st.manifest.targets)[i][2]
        metadata == Metadata(st.manifest, os_name, version_key)
        latest == fetch_latest_tag(os_name, metadata.base, up.registry)
        with_target == WithTarget(st.package_versions, os_name, version_key)
        fetched == fetch_all_package_versions(os_name, AllPackages(metadata.packages),
                                              ContainerReply(up, os_name))
        updated == UpdatePackages(DOMAIN fetched.results, fetched.results,
                                  PackageToBucket(metadata.packages, EmptyObject),
                                  with_target[os_name][version_key], {})
    IN IF latest.raised \/ fetched.raised THEN [st EXCEPT !.raised = TRUE]
       ELSE [raised |-> FALSE,
             manifest |-> WithMetadata(st.manifest, os_name, version_key,
                                       AliasStep(metadata, latest.tag)),
             alias_updates |->
                 IF AliasDiffers(metadata, latest.tag)
                 THEN Put(st.alias_updates, <<os_name, version_key>>, latest.tag)
                 ELSE st.alias_updates,
             package_versions |->
                 Put(with_target, os_name,
                     Put(with_target[os_name], version_key, updated.pkg_versions)),
             package_updates |->
                 [k \in DOMAIN st.package_updates
                        \cup {<<os_name, version_key, q>> : q \in updated.updated} |->
                     IF k[3] \in updated.updated /\ k[1] = os_name /\ k[2] = version_key
                     THEN fetched.results[k[3]] ELSE st.package_updates[k]]]

RECURSIVE WalkFrom(_, _, _)
WalkFrom(st, up, i) ==
    IF st.raised \/ i > Len(Walk(st.manifest.targets)) THEN st
    ELSE WalkFrom(TargetStep(st, up, i), up, i + 1)

\* update_manifest (lines 168-210) with the clock reading `time`.
update_manifest(doc, pv, up, time) ==
    LET st == WalkFrom([raised |-> FALSE, manifest |-> doc, package_versions |-> pv,
                        alias_updates |-> EmptyObject, package_updates |-> EmptyObject], up, 1)
        has_updates == HasUpdates(st.alias_updates, st.package_updates)
    IN [raised |-> st.raised,
        manifest |-> IF ~st.raised /\ has_updates THEN Stamp(st.manifest, time) ELSE st.manifest,
        package_versions |-> st.package_versions,
        alias_updates |-> st.alias_updates,
        package_updates |-> st.package_updates,
        result |-> has_updates]

\* A target with its buckets in any order.
BucketOrders(metadata) == {[metadata EXCEPT !.packages = p] : p \in Orders(metadata.packages)}

\* The versions of an OS in any order, each with its buckets in any order.
VersionOrders(versions) ==
    {q \in [1..Len(versions) ->
               UNION {{[key |-> versions[i].key, val |-> v] : v \in BucketOrders(versions[i].val)} :
                         i \in 1..Len(versions)}] :
        \A i, j \in 1..Len(versions) : i /= j => q[i].key /= q[j].key}

\* The targets object with its OS names, version keys and buckets in any order.
TargetOrders(targets) ==
    {q \in [1..Len(targets) ->
               UNION {{[key |-> targets[i].key, val |-> v] : v \in VersionOrders(targets[i].val)} :
                         i \in 1..Len(targets)}] :
        \A i, j \in 1..Len(targets) : i /= j => q[i].key /= q[j].key}

\* The same targets document iterated in any order.
Reorderings(doc) == {[doc EXCEPT !.targets = t] : t \in TargetOrders(doc.targets)}

\* The run that has returned is the run update_manifest computes.
RunIsUpdateManifest ==
    pc = "returned" =>
        LET o == update_manifest(disk_manifest, disk_package_versions, upstream, now)
        IN /\ ~o.raised
           /\ o.manifest = manifest
           /\ o.package_versions = package_versions
           /\ o.alias_updates = alias_updates
           /\ o.package_updates = package_updates
           /\ o.result = result

\* C22 as stated: order independence of reconciliation.  For the upstream
\* answers of a run that has returned, a run from the same documents with the
\* OS names, version keys and buckets iterated in any other order returns too,
\* with the same content of the targets document, the same package-versions
\* document and the same recorded updates.
C22_OrderIndependent ==
    pc = "returned" =>
        \A d \in Reorderings(disk_manifest) :
            LET o == update_manifest(d, disk_package_versions, upstream, now)
            IN /\ ~o.raised
               /\ Serialize(o.manifest) = Serialize(manifest)
               /\ o.package_versions = package_versions
               /\ o.alias_updates = alias_updates
               /\ o.package_updates = package_updates

\* C23 as stated: same package in several buckets.  For a processed target, a
\* package declared in more than one bucket that resolves to a non-null version
\* is stored with that version under every bucket declaring it.
C23_SharedPackage ==
    pc \in {"walk", "crashed", "returned", "saved_manifest"} =>
        \A t \in TargetSet(manifest) :
            Processed(t) =>
                \A d, e \in Declared(Metadata(manifest, t[1], t[2])) :
                    (d[2] = e[2] /\ d[1] /= e[1] /\ ~NullResolved(t, d[2])) =>
                        StoredVersion(package_versions, t[1], t[2], d[1], d[2])
                            = ResolvedVersions(t).results[d[2]]

\* What a reconciliation run must leave alone in a targets document: its keys,
\* `version`, `docker_compose_version`, `channels`, what `metadata` holds besides
\* last_updated, and of every target its OS name, version key, base, packages
\* and what it holds besides alias_patch.
FrameOf(doc) ==
    [keys |-> DOMAIN doc \ {"metadata"},
     version |-> doc.version,
     docker_compose_version |-> doc.docker_compose_version,
     channels |-> doc.channels,
     metadata |-> IF "metadata" \in DOMAIN doc
                  THEN [k \in DOMAIN doc.metadata \ {"last_updated"} |-> doc.metadata[k]]
                  ELSE EmptyObject,
     targets |-> {LET metadata == Metadata(doc, t[1], t[2])
                  IN [os |-> t[1], version |-> t[2],
                      keys |-> DOMAIN metadata \ {"alias_patch"},
                      base |-> metadata.base,
                      packages |-> {<<metadata.packages[i].key, metadata.packages[i].val>> :
                                       i \in 1..Len(metadata.packages)}] :
                     t \in TargetSet(doc)}]

\* Every (os, version) a channel refers to is a target of the document.
ChannelsResolve(doc) ==
    \A c \in DOMAIN doc.channels : <<doc.channels[c].os, doc.channels[c].version>> \in TargetSet(doc)

\* C25: reconciliation frame and channel invariant.  No step of any sequence of
\* runs changes, in the persisted or in the in-memory targets document, an OS, a
\* version key, a channel, `version`, `docker_compose_version`, or a target's
\* base or packages: the two documents differ from what was loaded in
\* alias_patch and metadata.last_updated only.  So channels that refer to
\* existing targets keep doing so.
C25_Frame ==
    [][/\ disk_manifest' /= disk_manifest =>
             /\ FrameOf(disk_manifest') = FrameOf(disk_manifest)
             /\ ChannelsResolve(disk_manifest) => ChannelsResolve(disk_manifest')
       /\ (manifest' /= manifest \/ disk_manifest' /= disk_manifest) =>
             FrameOf(manifest') = FrameOf(disk_manifest')]_vars

C25_Witness ==
    /\ pc = "done"
    /\ twice
    /\ StoredVersion(disk_package_versions, "alpine", "3.19", "engine", "docker") = "27.1"
    /\ AliasPatch(disk_manifest, <<"alpine", "3.19">>) = {Tag_3_19_10}
    /\ "metadata" \in DOMAIN disk_manifest
    /\ ChannelsResolve(disk_manifest)

\* C26 as stated: no update means no change.  When update_manifest returns
\* without an alias update and without a package update, the two documents it
\* hands to save are equal to the documents loaded, also for targets the
\* package-versions document had no entry for.
C26_NoUpdateNoChange ==
    (pc = "returned" /\ DOMAIN alias_updates = {} /\ DOMAIN package_updates = {}) =>
        /\ manifest = disk_manifest
        /\ package_versions = disk_package_versions

(***************************************************************************)
(* fetch_latest_tag on its own: any listing of at most MaxTags tags on two *)
(* result pages, for an operating system with a registry mapping.          *)
(***************************************************************************)
\* The reconciler is not running.
ReconcilerIdle ==
    /\ disk_manifest = [version |-> <<1, 0, 0>>, docker_compose_version |-> "2.29.1",
                        targets |-> TargetsObject(UbuntuPackages, FALSE), channels |-> Channels]
    /\ disk_package_versions = EmptyObject
    /\ upstream = NoUpstream
    /\ pc = "off"
    /\ idx = 1
    /\ manifest = disk_manifest
    /\ package_versions = disk_package_versions
    /\ alias_updates = EmptyObject
    /\ package_updates = EmptyObject
    /\ result = FALSE
    /\ now = 0
    /\ writes = [manifest |-> 0, package_versions |-> 0]
    /\ twice = FALSE
    /\ missing = {}

\* The tag names a registry may list.
TagUniverse ==
    {Tag_3_19, Tag_3_19_8, Tag_3_19_9, Tag_3_19_10, Tag_3_19_9_rc1, Tag_3_19_09,
     Tag_3_190, Tag_3_20_1, Tag_latest}

TagInit ==
    /\ tag_prefix \in {Tag_3_19, Tag_3_20_1}
    \* at most MaxTags tags, split over two pages at any point
    /\ \E n \in 0..MaxTags : \E tags \in [1..n -> TagUniverse] : \E k \in 0..n :
           tag_pages = <<SubSeq(tags, 1, k), SubSeq(tags, k + 1, n)>>
    /\ tag_result = [raised |-> FALSE, tag |-> << >>]
    /\ tag_pc = "called"
    /\ ReconcilerIdle /\ DriftIdle /\ PublishIdle

\* fetch_latest_tag("alpine", prefix) with every request answered.
Resolve ==
    /\ tag_pc = "called"
    /\ tag_result' = fetch_latest_tag("alpine", tag_prefix, [status |-> "ok", pages |-> tag_pages])
    /\ tag_pc' = "resolved"
    /\ UNCHANGED <<tag_prefix, tag_pages>>
    /\ UNCHANGED <<reconciler_vars, drift_vars, publish_vars>>

TagNext == Resolve

SpecTag == TagInit /\ [][TagNext]_vars

\* The listed tags that start with the prefix and consist of dot-separated digits.
Qualifying ==
    {t \in {Concat(tag_pages)[i] : i \in 1..Len(Concat(tag_pages))} :
        startswith(t, tag_prefix) /\ VERSION_PATTERN(t)}

\* Numeric component-wise order of two dotted tags (3.19 and 3.19.0 are equal).
NumericLess(a, b) == VersionLess(Release(a, 0), Release(b, 0))

\* C12 as stated: base alias resolution.  The call raises nothing; it returns
\* the prefix when no listed tag qualifies, and otherwise a qualifying listed
\* tag that no qualifying tag exceeds in numeric component-wise order.
C12_BaseAliasIsMaximum ==
    tag_pc = "resolved" =>
        /\ ~tag_result.raised
        /\ IF Qualifying = {} THEN tag_result.tag = tag_prefix
           ELSE /\ tag_result.tag \in Qualifying
                /\ \A q \in Qualifying : ~NumericLess(tag_result.tag, q)

(***************************************************************************)
(* detect_changes.py: the working tree's two documents against HEAD.       *)
(* Documents are functions from keys to values; a key that is absent from  *)
(* the JSON object is absent from the domain.                              *)
(***************************************************************************)
\* dict.get(key, default)
GetOr(d, k, default) == IF k \in DOMAIN d THEN d[k] ELSE default

\* A JSON object with the key when it has a value, and without it otherwise.
Optional(k, v) == IF v = None THEN EmptyObject ELSE (k :> v)

\* targets.json with or without docker_compose_version, with or without the
\* alpine 3.19 target, and the target with or without alias_patch.
TargetsDoc(compose, alias) ==
    Optional("docker_compose_version", compose) @@
    [targets |-> IF alias = "no target" THEN EmptyObject
                 ELSE [alpine |-> ("3.19" :> ([base |-> "3.19"] @@ Optional("alias_patch", alias)))]]

ComposeValues == {None, "2.29", "2.30"}
AliasValues == {"no target", None, "3.19.8", "3.19.9"}

TargetsDocs == {TargetsDoc(c, a) : c \in ComposeValues, a \in AliasValues}

\* package_versions.json: docker in the engine bucket, curl in the tools bucket,
\* each stored or not.
VersionsDoc(docker, curl) ==
    [alpine |-> ("3.19" :> [engine |-> Optional("docker", docker), tools |-> Optional("curl", curl)])]

VersionsDocs ==
    {VersionsDoc(d, c) : d \in {None, "27.0", "27.1"}, c \in {None, "8.5", "8.6"}}

\* What git show answers: the committed document, a non-zero exit (no HEAD, or
\* the file is not in HEAD), or output that is not JSON.
GitReplies(docs) ==
    {[status |-> "ok", doc |-> d] : d \in docs \cup {EmptyObject}} \cup
    {[status |-> st, doc |-> EmptyObject] : st \in {"nonzero", "invalid"}}

\* get_significant_packages with every package on the list.
get_significant_packages_All ==
    {"docker-ce", "docker", "podman", "containerd.io", "containerd", "docker-compose-plugin",
     "docker-cli-compose", "curl"}

get_significant_packages ==
    {"docker-ce", "docker", "podman", "containerd.io", "containerd", "docker-compose-plugin",
     "docker-cli-compose"}

\* load_json_from_git: the parsed document, or None (loaded is FALSE) when git
\* exits non-zero or its output does not parse.
load_json_from_git(reply) ==
    IF reply.status = "ok" THEN [loaded |-> TRUE, doc |-> reply.doc]
    ELSE [loaded |-> FALSE, doc |-> EmptyObject]

\* `if prev_targets:` : None and the empty object are both false.
Truthy(prev) == prev.loaded /\ DOMAIN prev.doc /= {}

\* A set as a sequence, in some fixed order.
RECURSIVE SeqOf(_)
SeqOf(S) ==
    IF S = {} THEN << >>
    ELSE LET x == CHOOSE y \in S : TRUE IN <<x>> \o SeqOf(S \ {x})

current_compose(cur) == GetOr(cur, "docker_compose_version", "")

prev_compose(prev) == IF Truthy(prev) THEN GetOr(prev.doc, "docker_compose_version", "") ELSE ""

\* The compose guard reporting whether or not the values differ.
ComposeChanged_Always(cur, prev) == TRUE

ComposeChanged(cur, prev) ==
    current_compose(cur) /= "" /\ current_compose(cur) /= prev_compose(prev)

ComposeChanges(cur, prev) ==
    IF ComposeChanged(cur, prev)
    THEN <<[type |-> "docker-compose", old_version |-> prev_compose(prev),
            new_version |-> current_compose(cur)]>>
    ELSE << >>

\* The (os, version) pairs the two loops over a targets document visit.
TargetPaths(doc) ==
    LET t == GetOr(doc, "targets", EmptyObject)
    IN UNION {{<<os, v>> : v \in DOMAIN t[os]} : os \in DOMAIN t}

current_patch(cur, p) == GetOr(cur.targets[p[1]][p[2]], "alias_patch", "")

prev_patch(prev, p) ==
    IF Truthy(prev)
    THEN GetOr(GetOr(GetOr(GetOr(prev.doc, "targets", EmptyObject), p[1], EmptyObject),
                     p[2], EmptyObject), "alias_patch", "")
    ELSE ""

\* The alias guard reporting every target, changed or not.
AliasChanged_Always(cur, prev, p) == TRUE

\* The alias guard comparing only against a baseline that was loaded.
AliasChanged_NeedsBaseline(cur, prev, p) ==
    Truthy(prev) /\ current_patch(cur, p) /= "" /\ current_patch(cur, p) /= prev_patch(prev, p)

AliasChanged(cur, prev, p) ==
    current_patch(cur, p) /= "" /\ current_patch(cur, p) /= prev_patch(prev, p)

AliasChanges(cur, prev) ==
    LET paths == SeqOf({p \in TargetPaths(cur) : AliasChanged(cur, prev, p)})
    IN [i \in 1..Len(paths) |->
           [type |-> "alias_patch", os |-> paths[i][1], os_version |-> paths[i][2],
            old_version |-> prev_patch(prev, paths[i]),
            new_version |-> current_patch(cur, paths[i])]]

\* The (os, version, section, package) keys the four loops over a versions document visit.
PackagePaths(doc) ==
    UNION {UNION {UNION {{<<os, v, section, package>> : package \in DOMAIN doc[os][v][section]} :
                            section \in DOMAIN doc[os][v]} :
                     v \in DOMAIN doc[os]} :
              os \in DOMAIN doc \ {"docker_compose_version"}}

prev_version(prev, p) ==
    IF Truthy(prev)
    THEN GetOr(GetOr(GetOr(GetOr(prev.doc, p[1], EmptyObject), p[2], EmptyObject),
                     p[3], EmptyObject), p[4], None)
    ELSE None

\* The package guard reporting every stored package, changed or not.
PackageChanged_Always(cur, prev, p) == TRUE

PackageChanged(cur, prev, p) ==
    /\ p[4] \in get_significant_packages
    /\ cur[p[1]][p[2]][p[3]][p[4]] /= prev_version(prev, p)

PackageChanges(cur, prev) ==
    LET paths == SeqOf({p \in PackagePaths(cur) : PackageChanged(cur, prev, p)})
    IN [i \in 1..Len(paths) |->
           [type |-> "package", os |-> paths[i][1], os_version |-> paths[i][2],
            section |-> paths[i][3], package |-> paths[i][4],
            old_version |-> prev_version(prev, paths[i]),
            new_version |-> cur[paths[i][1]][paths[i][2]][paths[i][3]][paths[i][4]]]]

check_for_changes(cur_targets, cur_versions, git_targets, git_versions) ==
    LET prev_versions == load_json_from_git(git_versions)
        prev_targets == load_json_from_git(git_targets)
    IN ComposeChanges(cur_targets, prev_targets) \o AliasChanges(cur_targets, prev_targets)
           \o PackageChanges(cur_versions, prev_versions)

DriftInit ==
    /\ current_targets \in TargetsDocs
    /\ current_versions \in VersionsDocs
    /\ head_targets \in GitReplies(TargetsDocs)
    /\ head_versions \in GitReplies(VersionsDocs)
    /\ changes = << >>
    /\ has_changes = "unset"
    /\ exit_code = -1
    /\ drift_pc = "start"
    /\ ReconcilerIdle /\ TagIdle /\ PublishIdle

\* main, line 127: changes = check_for_changes()
Classify ==
    /\ drift_pc = "start"
    /\ changes' = check_for_changes(current_targets, current_versions, head_targets, head_versions)
    /\ drift_pc' = "classified"
    /\ UNCHANGED <<current_targets, current_versions, head_targets, head_versions, has_changes,
                   exit_code>>
    /\ UNCHANGED <<reconciler_vars, tag_vars, publish_vars>>

\* main, lines 129-143: print the records and the signal; main returns and the
\* interpreter exits with status 0.
Report ==
    /\ drift_pc = "classified"
    /\ has_changes' = IF changes /= << >> THEN "true" ELSE "false"
    /\ exit_code' = 0
    /\ drift_pc' = "exited"
    /\ UNCHANGED <<current_targets, current_versions, head_targets, head_versions, changes>>
    /\ UNCHANGED <<reconciler_vars, tag_vars, publish_vars>>

DriftNext == Classify \/ Report

SpecDrift == DriftInit /\ [][DriftNext]_vars

(***************************************************************************)
(* The drift classifier's claims.  The snapshots are read here key by key, *)
(* apart from the classifier's own guards.                                 *)
(***************************************************************************)
\* The value at a path of keys in a nested object, None when a key is absent.
RECURSIVE At(_, _)
At(doc, path) ==
    IF path = << >> THEN doc
    ELSE IF Head(path) \in DOMAIN doc THEN At(doc[Head(path)], Tail(path))
    ELSE None

\* The baseline snapshot: an unloadable document has no key.
BaselineTargets == IF head_targets.status = "ok" THEN head_targets.doc ELSE EmptyObject
BaselineVersions == IF head_versions.status = "ok" THEN head_versions.doc ELSE EmptyObject

AllowList ==
    {"docker-ce", "docker", "podman", "containerd.io", "containerd", "docker-compose-plugin",
     "docker-cli-compose"}

\* Every (os, version, bucket, package) of either snapshot, and every target.
PackageKeys == PackagePaths(current_versions) \cup PackagePaths(BaselineVersions)
TargetKeys == TargetPaths(current_targets) \cup TargetPaths(BaselineTargets)

WorkingAlias(p) == At(current_targets, <<"targets", p[1], p[2], "alias_patch">>)
BaselineAlias(p) == At(BaselineTargets, <<"targets", p[1], p[2], "alias_patch">>)
WorkingCompose == At(current_targets, <<"docker_compose_version">>)
BaselineCompose == At(BaselineTargets, <<"docker_compose_version">>)

\* The positions in changes of the records of one kind and scope.
PackageRecords(p) ==
    {i \in 1..Len(changes) :
        /\ changes[i].type = "package"
        /\ <<changes[i].os, changes[i].os_version, changes[i].section, changes[i].package>> = p}
AliasRecords(p) ==
    {i \in 1..Len(changes) :
        changes[i].type = "alias_patch" /\ <<changes[i].os, changes[i].os_version>> = p}
ComposeRecords == {i \in 1..Len(changes) : changes[i].type = "docker-compose"}

Classified == drift_pc \in {"classified", "exited"}

\* C13: significant allow-list.  When both baselines load, the targets documents
\* are equal and the versions documents agree on every allow-listed package, no
\* change record is emitted and the signal printed is has_changes=false.
C13_AllowListOnly ==
    /\ Classified
    /\ head_targets.status = "ok" /\ head_targets.doc = current_targets
    /\ head_versions.status = "ok"
    /\ \A p \in PackageKeys : p[4] \in AllowList => At(current_versions, p) = At(BaselineVersions, p)
    => /\ changes = << >>
       /\ drift_pc = "exited" => has_changes = "false"

C13_Witness ==
    /\ drift_pc = "exited"
    /\ head_targets.status = "ok" /\ head_targets.doc = current_targets
    /\ head_versions.status = "ok"
    /\ At(current_versions, <<"alpine", "3.19", "engine", "docker">>) = "27.1"
    /\ At(BaselineVersions, <<"alpine", "3.19", "engine", "docker">>) = "27.1"
    /\ At(current_versions, <<"alpine", "3.19", "tools", "curl">>) = "8.6"
    /\ At(BaselineVersions, <<"alpine", "3.19", "tools", "curl">>) = "8.5"
    /\ has_changes = "false"

\* C14 as stated: package drift records.  For every allow-listed key of either
\* snapshot there is exactly one package record when the two versions differ
\* (a key in only one snapshot differs) and none when they are equal; any record
\* sets the signal.
C14_PackageRecords ==
    drift_pc = "exited" =>
        /\ \A p \in PackageKeys :
              p[4] \in AllowList =>
                  Cardinality(PackageRecords(p)) =
                      IF At(current_versions, p) /= At(BaselineVersions, p) THEN 1 ELSE 0
        /\ changes /= << >> => has_changes = "true"

\* C14 amended: the records are those of the working snapshot's keys.  An
\* allow-listed key stored in the working snapshot has exactly one package
\* record when its version differs from the baseline's (absent from the
\* baseline differs) and none when equal; a key stored only in the baseline, or
\* outside the allow-list, has none; any record sets the signal.
C14_WorkingPackageRecords ==
    drift_pc = "exited" =>
        /\ \A p \in PackageKeys :
              Cardinality(PackageRecords(p)) =
                  IF /\ p[4] \in AllowList
                     /\ p \in PackagePaths(current_versions)
                     /\ At(current_versions, p) /= At(BaselineVersions, p)
                  THEN 1 ELSE 0
        /\ changes /= << >> => has_changes = "true"

C14_Witness ==
    /\ drift_pc = "exited"
    /\ At(current_versions, <<"alpine", "3.19", "engine", "docker">>) = None
    /\ At(BaselineVersions, <<"alpine", "3.19", "engine", "docker">>) = "27.0"
    /\ PackageRecords(<<"alpine", "3.19", "engine", "docker">>) = {}
    /\ has_changes = "true"

\* C15 as stated: alias drift records.  Every target of either snapshot whose
\* alias_patch differs between the two (a target absent from the baseline has
\* none there) has an alias_patch record, and a target whose alias_patch is
\* equal in both has none.
C15_AliasRecords ==
    Classified =>
        \A p \in TargetKeys : (AliasRecords(p) /= {}) <=> (WorkingAlias(p) /= BaselineAlias(p))

\* C15 amended: a target has an alias_patch record, exactly one, if and only if
\* the working snapshot stores an alias_patch for it that differs from the
\* baseline's; a target without alias_patch in the working snapshot has none,
\* whatever the baseline stores.
C15_WorkingAliasRecords ==
    Classified =>
        \A p \in TargetKeys :
            Cardinality(AliasRecords(p)) =
                IF WorkingAlias(p) /= None /\ WorkingAlias(p) /= BaselineAlias(p) THEN 1 ELSE 0

C15_Witness ==
    /\ Classified
    /\ <<"alpine", "3.19">> \in TargetPaths(current_targets)
    /\ WorkingAlias(<<"alpine", "3.19">>) = None
    /\ BaselineAlias(<<"alpine", "3.19">>) = "3.19.8"
    /\ AliasRecords(<<"alpine", "3.19">>) = {}

\* C16 as stated: compose drift record.  A compose record is emitted if and
\* only if docker_compose_version differs between the working and the baseline
\* targets document.
C16_ComposeRecord ==
    Classified => ((ComposeRecords /= {}) <=> (WorkingCompose /= BaselineCompose))

\* C16 amended: a compose record, exactly one, is emitted if and only if the
\* working targets document stores a docker_compose_version that differs from
\* the baseline's; a working document without one emits none.
C16_WorkingComposeRecord ==
    Classified =>
        Cardinality(ComposeRecords) =
            IF WorkingCompose /= None /\ WorkingCompose /= BaselineCompose THEN 1 ELSE 0

C16_Witness ==
    /\ Classified
    /\ WorkingCompose = None
    /\ BaselineCompose = "2.29"
    /\ ComposeRecords = {}

\* C17: missing baseline.  The run ends normally whatever git answers.  When the
\* targets baseline cannot be loaded, a stored docker_compose_version and every
\* stored alias_patch of the working snapshot is reported with no old value;
\* when the versions baseline cannot be loaded, every allow-listed package
\* version of the working snapshot is.
C17_MissingBaseline ==
    /\ drift_pc = "exited" => exit_code = 0
    /\ Classified /\ head_targets.status /= "ok" =>
          /\ WorkingCompose /= None =>
                \E i \in ComposeRecords :
                    changes[i].old_version = "" /\ changes[i].new_version = WorkingCompose
          /\ \A p \in TargetPaths(current_targets) :
                WorkingAlias(p) /= None =>
                    \E i \in AliasRecords(p) :
                        changes[i].old_version = "" /\ changes[i].new_version = WorkingAlias(p)
    /\ Classified /\ head_versions.status /= "ok" =>
          \A p \in PackagePaths(current_versions) :
              p[4] \in AllowList =>
                  \E i \in PackageRecords(p) :
                      /\ changes[i].old_version = None
                      /\ changes[i].new_version = At(current_versions, p)

C17_Witness ==
    /\ drift_pc = "exited"
    /\ head_targets.status = "invalid"
    /\ head_versions.status = "nonzero"
    /\ WorkingCompose = "2.30"
    /\ WorkingAlias(<<"alpine", "3.19">>) = "3.19.9"
    /\ At(current_versions, <<"alpine", "3.19", "engine", "docker">>) = "27.1"
    /\ Len(changes) = 3
    /\ has_changes = "true"

\* C18 as stated: drift exit code.  The program exits with 0 when a significant
\* change was detected and with 1 otherwise.
C18_ExitCode ==
    drift_pc = "exited" => exit_code = IF changes /= << >> THEN 0 ELSE 1

(***************************************************************************)
(* tag_aliases.py: re-point every channel alias at its source tag.         *)
(***************************************************************************)
MAX_RETRIES == 3
RETRY_DELAY_SECONDS == 30
DELAY_BETWEEN_OPERATIONS == 2

\* The channels of the manifest, in file order.
PublishChannels ==
    <<[key |-> "stable", val |-> [os |-> "alpine", version |-> "3.19", engine |-> "docker"]],
      [key |-> "lts", val |-> [os |-> "ubuntu", version |-> "24.04", engine |-> "docker"]],
      [key |-> "edge", val |-> [os |-> "alpine", version |-> "3.20", engine |-> "podman"]]>>

\* A target of the manifest: not there, there without alias_patch, or there with it.
PublishTarget(version, alias) ==
    IF alias = "no target" THEN EmptyObject
    ELSE version :> ([base |-> version] @@ Optional("alias_patch", alias))

PublishManifests ==
    {[version |-> "1.4.2",
      targets |-> [alpine |-> PublishTarget("3.19", a) @@ PublishTarget("3.20", c),
                   ubuntu |-> PublishTarget("24.04", b)],
      channels |-> PublishChannels] :
        a \in {"no target", None, "3.19.9"}, b \in {"no target", None, "24.04"},
        c \in {"no target", None, "3.20.1"}}

\* What docker buildx imagetools create answers: the return code and which of
\* the two rate-limit markers stderr holds.
RegistryResponses ==
    {[returncode |-> rc, stderr |-> e] :
        rc \in {0, 1}, e \in {{}, {"429"}, {"Too Many Requests"}}}

\* "429" in result.stderr or "Too Many Requests" in result.stderr
RateLimited(stderr) == "429" \in stderr \/ "Too Many Requests" \in stderr

\* The backoff that does not grow.
wait_time_Constant(n) == RETRY_DELAY_SECONDS

wait_time(n) == RETRY_DELAY_SECONDS * n

\* The retry guard retrying after any failure.
ShouldRetry_AnyError(stderr, n) == n < MAX_RETRIES

ShouldRetry(stderr, n) == RateLimited(stderr) /\ n < MAX_RETRIES

\* f"{manifest['version']}-{os_name}-{alias_patch}-{engine}"
source_tag(m, os_name, alias_patch, engine) ==
    <<m.version, "-", os_name, "-", alias_patch, "-", engine>>

PublishInit ==
    /\ pub_manifest \in PublishManifests
    /\ dry_run \in BOOLEAN
    /\ pub_idx = 1
    /\ first_operation = TRUE
    /\ call = << >>
    /\ attempt = 0
    /\ responses = << >>
    /\ waits = << >>
    /\ throttles = 0
    /\ retagged = << >>
    /\ registry = [a \in {PublishChannels[i].key : i \in 1..Len(PublishChannels)} |-> << >>]
    /\ pub_exit = -1
    /\ pub_pc = "main"
    /\ ReconcilerIdle /\ TagIdle /\ DriftIdle

\* One pass of main's loop up to the call of retag (lines 92-108), with
\* retag's dry-run return (lines 56-58).
Channel ==
    /\ pub_pc = "main"
    /\ pub_idx <= Len(pub_manifest.channels)
    /\ LET alias == pub_manifest.channels[pub_idx].key
           cfg == pub_manifest.channels[pub_idx].val
           os_versions == GetOr(pub_manifest.targets, cfg.os, EmptyObject)
       IN IF cfg.version \notin DOMAIN os_versions
          THEN /\ pub_idx' = pub_idx + 1
               /\ UNCHANGED <<first_operation, call, attempt, responses, waits, throttles,
                              retagged, pub_exit, pub_pc>>
          ELSE /\ throttles' = IF ~first_operation /\ ~dry_run THEN throttles + 1 ELSE throttles
               /\ first_operation' = FALSE
               /\ IF "alias_patch" \notin DOMAIN os_versions[cfg.version]
                  THEN /\ pub_pc' = "crashed"
                       /\ pub_exit' = 1
                       /\ UNCHANGED <<pub_idx, call, attempt, responses, waits, retagged>>
                  ELSE /\ call' = [source |-> source_tag(pub_manifest, cfg.os,
                                                         os_versions[cfg.version].alias_patch,
                                                         cfg.engine),
                                   target |-> alias]
                       /\ retagged' = Append(retagged, alias)
                       /\ responses' = << >>
                       /\ waits' = << >>
                       /\ UNCHANGED pub_exit
                       /\ IF dry_run
                          THEN /\ pub_idx' = pub_idx + 1
                               /\ UNCHANGED <<attempt, pub_pc>>
                          ELSE /\ attempt' = 1
                               /\ pub_pc' = "retag"
                               /\ UNCHANGED pub_idx
    /\ UNCHANGED <<pub_manifest, dry_run, registry>>
    /\ UNCHANGED <<reconciler_vars, tag_vars, drift_vars>>

\* One pass of retag's loop (lines 60-76) with the registry's answer.
Attempt(response) ==
    /\ pub_pc = "retag"
    /\ attempt <= MAX_RETRIES
    /\ responses' = Append(responses, response)
    /\ IF response.returncode = 0
       THEN /\ registry' = [registry EXCEPT ![call.target] = call.source]
            /\ attempt' = 0
            /\ pub_idx' = pub_idx + 1
            /\ pub_pc' = "main"
            /\ UNCHANGED <<waits, pub_exit>>
       ELSE IF ShouldRetry(response.stderr, attempt)
            THEN /\ waits' = Append(waits, wait_time(attempt))
                 /\ attempt' = attempt + 1
                 /\ UNCHANGED <<registry, pub_idx, pub_pc, pub_exit>>
            ELSE /\ pub_pc' = "failed"
                 /\ pub_exit' = 1
                 /\ UNCHANGED <<registry, attempt, pub_idx, waits>>
    /\ UNCHANGED <<pub_manifest, dry_run, first_operation, call, throttles, retagged>>
    /\ UNCHANGED <<reconciler_vars, tag_vars, drift_vars>>

\* main returns 0 after the last channel (line 110).
Return ==
    /\ pub_pc = "main"
    /\ pub_idx > Len(pub_manifest.channels)
    /\ pub_pc' = "done"
    /\ pub_exit' = 0
    /\ UNCHANGED <<pub_manifest, dry_run, pub_idx, first_operation, call, attempt, responses,
                   waits, throttles, retagged, registry>>
    /\ UNCHANGED <<reconciler_vars, tag_vars, drift_vars>>

PublishNext ==
    \/ Channel
    \/ \E response \in RegistryResponses : Attempt(response)
    \/ Return

SpecPublish == PublishInit /\ [][PublishNext]_vars

(***************************************************************************)
(* The publisher's claims.                                                 *)
(***************************************************************************)
RECURSIVE SumSeq(_)
SumSeq(q) == IF q = << >> THEN 0 ELSE Head(q) + SumSeq(Tail(q))

\* The registry refused the request with a rate-limit answer.
RateLimitedResponse(r) == r.returncode /= 0 /\ RateLimited(r.stderr)

\* C19: bounded retry with linear backoff.  One call of retag asks the registry
\* at most MAX_RETRIES (3) times, its n-th backoff wait is base_delay*n, and
\* when attempts 1..k-1 were rate-limited and attempt k succeeded the alias
\* points to the source tag, no error is propagated and the waits add up to
\* base_delay*(1 + ... + (k-1)).
C19_BoundedRetry ==
    /\ MAX_RETRIES = 3
    /\ Len(responses) <= MAX_RETRIES
    /\ \A n \in 1..Len(waits) : waits[n] = RETRY_DELAY_SECONDS * n
    /\ LET k == Len(responses)
       IN /\ k >= 1
          /\ responses[k].returncode = 0
          /\ \A j \in 1..(k - 1) : RateLimitedResponse(responses[j])
          => /\ registry[call.target] = call.source
             /\ pub_pc /= "failed"
             /\ Len(waits) = k - 1
             /\ SumSeq(waits) = RETRY_DELAY_SECONDS * (((k - 1) * k) \div 2)

C19_Witness ==
    /\ Len(responses) = 3
    /\ RateLimitedResponse(responses[1])
    /\ RateLimitedResponse(responses[2])
    /\ responses[3].returncode = 0
    /\ waits = <<30, 60>>
    /\ registry[call.target] = call.source
    /\ pub_pc = "done"

\* C20: fatal publish failure without rollback.  An answer that is a failure
\* other than a rate limit, or a rate limit on attempt MAX_RETRIES, ends the run
\* with an error at once, without a wait and with the registry as it was; after
\* that nothing more happens: no later channel is attempted and every alias
\* re-pointed earlier stays re-pointed.
C20_FatalFailure ==
    [][/\ (/\ pub_pc = "retag"
           /\ Len(responses') = Len(responses) + 1
           /\ LET r == responses'[Len(responses')]
              IN /\ r.returncode /= 0
                 /\ (~RateLimited(r.stderr) \/ Len(responses') = MAX_RETRIES))
          => /\ pub_pc' = "failed"
             /\ pub_exit' /= 0
             /\ waits' = waits
             /\ registry' = registry
             /\ retagged' = retagged
       /\ pub_pc = "failed" => UNCHANGED publish_vars]_vars

C20_Witness ==
    /\ pub_pc = "failed"
    /\ retagged = <<"stable", "lts">>
    /\ registry["stable"] /= << >>
    /\ registry["lts"] = << >>
    /\ At(pub_manifest.targets, <<"alpine", "3.20", "alias_patch">>) = "3.20.1"
    /\ ~RateLimited(responses[Len(responses)].stderr)
    /\ Len(responses) = 2

\* The positions in channels whose (os, version) is a target of the manifest.
Publishable ==
    {i \in 1..Len(pub_manifest.channels) :
        LET cfg == pub_manifest.channels[i].val
        IN /\ cfg.os \in DOMAIN pub_manifest.targets
           /\ cfg.version \in DOMAIN pub_manifest.targets[cfg.os]}

\* The aliases of the publishable channels up to position n, in channels order.
RECURSIVE PublishableUpTo(_)
PublishableUpTo(n) ==
    IF n = 0 THEN << >>
    ELSE PublishableUpTo(n - 1) \o
         (IF n \in Publishable THEN <<pub_manifest.channels[n].key>> ELSE << >>)

\* {release_version}-{os}-{alias_patch}-{engine} of the channel at position i.
ExpectedSource(i) ==
    LET cfg == pub_manifest.channels[i].val
    IN <<pub_manifest.version, "-", cfg.os, "-",
         At(pub_manifest.targets, <<cfg.os, cfg.version, "alias_patch">>), "-", cfg.engine>>

\* C21 as stated: channel publishing and skip.  A run in which no re-tag fails
\* ends with success, never otherwise; at its end every channel whose target
\* exists was handed to the registry exactly once, in channels order, and
\* (unless --dry-run) points to its source tag, and no channel whose target is
\* absent caused a request.
C21_PublishAndSkip ==
    /\ pub_pc /= "crashed"
    /\ pub_pc = "done" =>
          /\ pub_exit = 0
          /\ retagged = PublishableUpTo(Len(pub_manifest.channels))
          /\ \A i \in 1..Len(pub_manifest.channels) :
                registry[pub_manifest.channels[i].key] =
                    IF i \in Publishable /\ ~dry_run THEN ExpectedSource(i) ELSE << >>

\* C24 as stated: proactive throttle.  In a run without --dry-run the fixed
\* delay has been slept once between consecutive re-tag operations and not
\* before the first: after n >= 1 operations it was slept n - 1 times, and not
\* at all before any operation.  Skipped channels are no operations: they add
\* no delay, and a skip before the first operation does not make that operation
\* wait.
C24_ProactiveThrottle ==
    (pub_pc /= "off" /\ ~dry_run) =>
        throttles = IF retagged = << >> THEN 0 ELSE Len(retagged) - 1

====
